---- MODULE Spec2Model ----
(***************************************************************************)
(* Model of stages/fetch_data.py of biobricks-ai/cebs: the catalog scrape, *)
(* get_slug, and the per-row dataset retrieval (get_columnList, the        *)
(* preliminary request and the pagination loop of get_html_table_api with  *)
(* fetch_api_data's retry policy, saving, and the status log).             *)
(*                                                                         *)
(* Strings that the code slices (links, slugs) are sequences of one-       *)
(* character strings.  A list of records is kept run-length encoded: one   *)
(* run [src, start, n] stands for the n records of the response to the     *)
(* request `src` issued at offset `start`, so the list's length is the sum *)
(* of its runs' n and list concatenation is sequence concatenation.        *)
(* Every HTTP exchange is one step whose outcome (status, payload,         *)
(* exception) is chosen by the environment.                                *)
(***************************************************************************)
EXTENDS Integers, Sequences, FiniteSets, TLC

VARIABLES
    pc,             \* position in the script
    df,             \* catalog dataframe: sequence of rows [Link, slug]
    index,          \* position of the current catalog row (1-based)
    link,           \* row['Link'] of the current row / get_slug's argument
    slug,           \* row['slug'] of the current row / get_slug's result
    columnList,     \* result of get_columnList for the current row
    records_total,  \* get_html_table_api: total of the preliminary request
    N_iterations,   \* get_html_table_api: pagination loop bound
    i,              \* get_html_table_api: loop iterations completed
    start,          \* get_html_table_api: offset of the next page request
    all_data,       \* get_html_table_api: accumulator (runs)
    status,         \* status string of the last row
    tries,          \* fetch_api_data: attempt number of the call in progress
    retried,        \* some page POST of the current slug raised and was retried
    prelim_posts,   \* preliminary POSTs issued for the current slug
    received,       \* page responses (HTTP 200) received for the current slug
    exc,            \* exception propagating to the row's except clause
    status_log,     \* lines of status_queries.txt
    files           \* brick/datasets/<slug>.parquet written by this run

vars == <<pc, df, index, link, slug, columnList, records_total, N_iterations,
          i, start, all_data, status, tries, retried, prelim_posts, received,
          exc, status_log, files>>

(***************************** bounds **************************************)
\* at most this many rows in the scraped catalog
NRows == 2
\* reported totals range over multiples of half a page up to this many halves
MaxHalfPages == 2
\* get_slug inputs: longest text put before and after the marker
MaxAffix == 2

(***************************** constants ***********************************)
batch_size == 1000
max_tries == 10

\* a local of get_html_table_api that no statement has assigned yet
Unbound == -1
None == "None"
NoException == "none"

marker == <<"s", "e", "a", "r", "c", "h", "/">>

(***************************** get_slug ************************************)
\* s[a:] of Python for a sequence s and an integer a
SliceFrom(s, a) ==
    LET n == Len(s)
        lo == IF a < 0 THEN (IF n + a < 0 THEN 0 ELSE n + a)
                       ELSE (IF a > n THEN n ELSE a)
    IN  SubSeq(s, lo + 1, n)

\* the positions (0-based) at which sub occurs in s
Occurrences(s, sub) ==
    {k \in 0..(Len(s) - Len(sub)) : SubSeq(s, k + 1, k + Len(sub)) = sub}

\* s.find(sub) of Python: lowest 0-based position of sub in s, -1 when absent
Find(s, sub) ==
    IF Occurrences(s, sub) = {} THEN -1
    ELSE CHOOSE k \in Occurrences(s, sub) :
            \A j \in Occurrences(s, sub) : k <= j

get_slug(l) == SliceFrom(l, Find(l, marker) + Len(marker))

(***************************** catalog *************************************)
Letters == <<"a", "b", "c", "d", "e", "f", "g", "h">>

\* href of the first cell of catalog row r, as scraped by get_html_table
CatalogLink(r) == <<"d", "/">> \o marker \o <<Letters[r]>>

\* df after df['slug'] = df['Link'].apply(get_slug), for a catalog of n rows
Catalog(n) ==
    [r \in 1..n |-> [Link |-> CatalogLink(r), slug |-> get_slug(CatalogLink(r))]]

(***************************** get_html_table_api **************************)
\* variant: the loop bound computed as the ceiling of total / batch_size
NIterations_Ceil(total) == (total + batch_size - 1) \div batch_size

\* N_iterations = int(records_total / batch_size) + 1
NIterations(total) == (total \div batch_size) + 1

\* totals the preliminary request may report
Totals == {k * (batch_size \div 2) : k \in 0..MaxHalfPages}

\* the records the dataset holds at offset s, at most one page of them
FullSlice(total, s) ==
    IF total - s <= 0 THEN 0
    ELSE IF total - s > batch_size THEN batch_size ELSE total - s

\* record counts a page response may carry: none, the slice, a whole page
PageCounts(total, s) == {0, FullSlice(total, s), batch_size}

\* the data of the response to the page request at offset s, c records long
PageResponse(s, c) == [src |-> "page", start |-> s, n |-> c]

\* all_data.extend(batch_data)
Extend(acc, batch) == IF batch.n = 0 THEN acc ELSE Append(acc, batch)

\* variant: the offset advanced by the number of records received
NextStart_ByBatchLength(s, batch) == s + batch.n

\* start += batch_size
NextStart(s, batch) == s + batch_size

\* len(pd.DataFrame(all_data))
RECURSIVE NFetched(_)
NFetched(acc) ==
    IF acc = <<>> THEN 0 ELSE acc[1].n + NFetched(Tail(acc))

\* variant: the 'Incomplete' test written with <= and run last
Status_IncompleteWins(n, total) ==
    IF n <= total THEN <<"Incomplete", n, total>> ELSE <<"Failed">>

\* status = 'Failed'; < total: 'Incomplete (n/total)'; == total: 'Complete'
Status(n, total) ==
    LET s0 == <<"Failed">>
        s1 == IF n < total THEN <<"Incomplete", n, total>> ELSE s0
    IN  IF n = total THEN <<"Complete">> ELSE s1

FailedToRetrieve == <<"Failed to retrieve.">>

\* f.write(f"{status} - {slug} \n") in append mode
WriteStatus(log, st, sl) == Append(log, [status |-> st, slug |-> sl])

\* variant: the except clause writes nothing
WriteFailure_Nothing(log, st, sl) == log

\* f.write(f"{status} - {slug}\n") of the except clause, in append mode
WriteFailure(log, st, sl) == Append(log, [status |-> st, slug |-> sl])

\* df_data.to_parquet(output_dir / f'{slug}.parquet')
ToParquet(fs, sl, data) == (sl :> data) @@ fs

(***************************** state ***************************************)
\* the locals of get_html_table_api before the call and after it is left
NoFrame ==
    /\ records_total' = Unbound
    /\ N_iterations' = Unbound
    /\ i' = 0
    /\ start' = 0
    /\ all_data' = <<>>
    /\ tries' = 0
    /\ retried' = FALSE
    /\ prelim_posts' = 0
    /\ received' = <<>>

frame == <<records_total, N_iterations, i, start, all_data, tries, retried,
           prelim_posts, received>>

StaleLog == <<[status |-> <<"Complete">>, slug |-> <<"o", "l", "d">>]>>

Init ==
    /\ pc = "catalog"
    /\ df = <<>>
    /\ index = 0
    /\ link = <<>>
    /\ slug = <<>>
    /\ columnList = None
    /\ records_total = Unbound
    /\ N_iterations = Unbound
    /\ i = 0
    /\ start = 0
    /\ all_data = <<>>
    /\ status = <<>>
    /\ tries = 0
    /\ retried = FALSE
    /\ prelim_posts = 0
    /\ received = <<>>
    /\ exc = NoException
    /\ status_log \in {<<>>, StaleLog}
    /\ files = <<>>

(***************************** __main__ ************************************)
\* get_html_table answers with a table: df and its slug column are built
FetchCatalog_OK ==
    /\ pc = "catalog"
    /\ \E n \in 0..NRows : df' = Catalog(n)
    /\ pc' = "open_status"
    /\ UNCHANGED <<index, link, slug, columnList, status, exc, status_log,
                   files, frame>>

\* get_html_table returns None (bad status, no table) or raises: df['Link']
\* raises outside any try and the script ends
FetchCatalog_Failed ==
    /\ pc = "catalog"
    /\ pc' = "aborted"
    /\ UNCHANGED <<df, index, link, slug, columnList, status, exc, status_log,
                   files, frame>>

\* open(file_status_queries, "w").close(), then the loop starts
OpenStatusFile ==
    /\ pc = "open_status"
    /\ status_log' = <<>>
    /\ index' = 1
    /\ pc' = "row"
    /\ UNCHANGED <<df, link, slug, columnList, status, exc, files, frame>>

\* the row's fields are read; get_columnList answers with the column list
GetColumnList_OK ==
    /\ pc = "row"
    /\ index <= Len(df)
    /\ link' = df[index].Link
    /\ slug' = df[index].slug
    /\ columnList' = "cols"
    /\ pc' = "prelim"
    /\ UNCHANGED <<df, index, status, exc, status_log, files, frame>>

\* get_columnList gets a bad status or a page without table: it returns None
\* and the row goes on with columnList = None
GetColumnList_None ==
    /\ pc = "row"
    /\ index <= Len(df)
    /\ link' = df[index].Link
    /\ slug' = df[index].slug
    /\ columnList' = None
    /\ pc' = "prelim"
    /\ UNCHANGED <<df, index, status, exc, status_log, files, frame>>

\* requests.get of get_columnList raises
GetColumnList_Exception ==
    /\ pc = "row"
    /\ index <= Len(df)
    /\ link' = df[index].Link
    /\ slug' = df[index].slug
    /\ exc' = "columnList_exception"
    /\ pc' = "except"
    /\ UNCHANGED <<df, index, columnList, status, status_log, files, frame>>

\* df.iterrows() is exhausted
Finish ==
    /\ pc = "row"
    /\ index > Len(df)
    /\ pc' = "done"
    /\ UNCHANGED <<df, index, link, slug, columnList, status, exc, status_log,
                   files, frame>>

\* the preliminary POST answers 200 with recordsTotal = total
Prelim_OK ==
    /\ pc = "prelim"
    /\ \E total \in Totals :
          /\ records_total' = total
          /\ N_iterations' = NIterations(total)
    /\ prelim_posts' = prelim_posts + 1
    /\ pc' = "page"
    /\ UNCHANGED <<df, index, link, slug, columnList, status, exc, status_log,
                   files, i, start, all_data, tries, retried, received>>

\* variant: the preliminary POST is attempted a second time before giving up
Prelim_BadStatus_Retried ==
    /\ pc = "prelim"
    /\ prelim_posts' = prelim_posts + 2
    /\ exc' = "prelim_status"
    /\ pc' = "except"
    /\ UNCHANGED <<df, index, link, slug, columnList, status, status_log,
                   files, records_total, N_iterations, i, start, all_data,
                   tries, retried, received>>

\* the preliminary POST answers another status: N_iterations stays unbound
\* and range(N_iterations) raises
Prelim_BadStatus ==
    /\ pc = "prelim"
    /\ prelim_posts' = prelim_posts + 1
    /\ exc' = "prelim_status"
    /\ pc' = "except"
    /\ UNCHANGED <<df, index, link, slug, columnList, status, status_log,
                   files, records_total, N_iterations, i, start, all_data,
                   tries, retried, received>>

\* the preliminary POST (or the decoding of its answer) raises
Prelim_Exception ==
    /\ pc = "prelim"
    /\ prelim_posts' = prelim_posts + 1
    /\ exc' = "prelim_exception"
    /\ pc' = "except"
    /\ UNCHANGED <<df, index, link, slug, columnList, status, status_log,
                   files, records_total, N_iterations, i, start, all_data,
                   tries, retried, received>>

\* an attempt of fetch_api_data answers 200: the batch is appended
Page_OK ==
    /\ pc = "page"
    /\ i < N_iterations
    /\ \E c \in PageCounts(records_total, start) :
          /\ all_data' = Extend(all_data, PageResponse(start, c))
          /\ start' = NextStart(start, PageResponse(start, c))
          /\ received' = Append(received, PageResponse(start, c))
    /\ tries' = 0
    /\ i' = i + 1
    /\ UNCHANGED <<pc, df, index, link, slug, columnList, status, exc,
                   status_log, files, records_total, N_iterations,
                   retried, prelim_posts>>

\* an attempt of fetch_api_data answers another status: it returns None and
\* response.status_code raises
Page_BadStatus ==
    /\ pc = "page"
    /\ i < N_iterations
    /\ tries' = tries + 1
    /\ exc' = "page_status"
    /\ pc' = "except"
    /\ UNCHANGED <<df, index, link, slug, columnList, status, status_log,
                   files, records_total, N_iterations, i, start, all_data,
                   retried, prelim_posts, received>>

\* an attempt answers 200 with a body response.json() cannot decode
Page_JsonError ==
    /\ pc = "page"
    /\ i < N_iterations
    /\ tries' = tries + 1
    /\ exc' = "page_json"
    /\ pc' = "except"
    /\ UNCHANGED <<df, index, link, slug, columnList, status, status_log,
                   files, records_total, N_iterations, i, start, all_data,
                   retried, prelim_posts, received>>

\* variant: backoff without max_tries
Page_Retry_Unbounded ==
    /\ pc = "page"
    /\ i < N_iterations
    /\ tries' = tries + 1
    /\ retried' = TRUE
    /\ UNCHANGED <<pc, df, index, link, slug, columnList, status, exc,
                   status_log, files, records_total, N_iterations, i, start,
                   all_data, prelim_posts, received>>

\* an attempt raises a RequestException and backoff tries again
Page_Retry ==
    /\ pc = "page"
    /\ i < N_iterations
    /\ tries + 1 < max_tries
    /\ tries' = tries + 1
    /\ retried' = TRUE
    /\ UNCHANGED <<pc, df, index, link, slug, columnList, status, exc,
                   status_log, files, records_total, N_iterations, i, start,
                   all_data, prelim_posts, received>>

\* the max_tries-th attempt raises a RequestException: backoff re-raises it
Page_GiveUp ==
    /\ pc = "page"
    /\ i < N_iterations
    /\ tries + 1 >= max_tries
    /\ tries' = tries + 1
    /\ retried' = TRUE
    /\ exc' = "page_exhausted"
    /\ pc' = "except"
    /\ UNCHANGED <<df, index, link, slug, columnList, status, status_log,
                   files, records_total, N_iterations, i, start, all_data,
                   prelim_posts, received>>

\* the loop is over: the dataframe is built and the status derived
Return ==
    /\ pc = "page"
    /\ i >= N_iterations
    /\ status' = Status(NFetched(all_data), records_total)
    /\ pc' = "save"
    /\ UNCHANGED <<df, index, link, slug, columnList, exc, status_log, files,
                   frame>>

\* the dataset file and the status line are written; next row
Save_OK ==
    /\ pc = "save"
    /\ files' = ToParquet(files, slug, all_data)
    /\ status_log' = WriteStatus(status_log, status, slug)
    /\ index' = index + 1
    /\ pc' = "row"
    /\ NoFrame
    /\ UNCHANGED <<df, link, slug, columnList, status, exc>>

\* to_parquet raises
Save_Exception ==
    /\ pc = "save"
    /\ exc' = "save_exception"
    /\ pc' = "except"
    /\ UNCHANGED <<df, index, link, slug, columnList, status, status_log,
                   files, frame>>

\* variant: the except clause writes the failure line and re-raises
ExceptHandler_Reraise ==
    /\ pc = "except"
    /\ status' = FailedToRetrieve
    /\ slug' = df[index].slug
    /\ status_log' = WriteFailure(status_log, FailedToRetrieve, df[index].slug)
    /\ pc' = "aborted"
    /\ UNCHANGED <<df, index, link, columnList, exc, files, frame>>

\* the except clause of the row: the failure line is written; next row
ExceptHandler ==
    /\ pc = "except"
    /\ status' = FailedToRetrieve
    /\ slug' = df[index].slug
    /\ status_log' = WriteFailure(status_log, FailedToRetrieve, df[index].slug)
    /\ exc' = NoException
    /\ index' = index + 1
    /\ pc' = "row"
    /\ NoFrame
    /\ UNCHANGED <<df, link, columnList, files>>

Next ==
    \/ FetchCatalog_OK
    \/ FetchCatalog_Failed
    \/ OpenStatusFile
    \/ GetColumnList_OK
    \/ GetColumnList_None
    \/ GetColumnList_Exception
    \/ Finish
    \/ Prelim_OK
    \/ Prelim_BadStatus
    \/ Prelim_Exception
    \/ Page_OK
    \/ Page_BadStatus
    \/ Page_JsonError
    \/ Page_Retry
    \/ Page_GiveUp
    \/ Return
    \/ Save_OK
    \/ Save_Exception
    \/ ExceptHandler

Spec == Init /\ [][Next]_vars

\* every request answers or raises, and the interpreter runs the next statement
FairSpec == Spec /\ WF_vars(Next)

(***************************** get_slug alone ******************************)
AffixChars == {"s", "/", "x"}

\* texts of at most MaxAffix characters
Affixes == UNION {[1..k -> AffixChars] : k \in 0..MaxAffix}

\* nothing, the marker, the marker twice, the marker cut short
Middles == {<<>>, marker, marker \o marker, SubSeq(marker, 1, Len(marker) - 1)}

LinkInputs == {a \o m \o b : a \in Affixes, m \in Middles, b \in Affixes}

SlugInit ==
    /\ pc = "get_slug"
    /\ link \in LinkInputs
    /\ df = <<>>
    /\ index = 0
    /\ slug = <<>>
    /\ columnList = None
    /\ records_total = Unbound
    /\ N_iterations = Unbound
    /\ i = 0
    /\ start = 0
    /\ all_data = <<>>
    /\ status = <<>>
    /\ tries = 0
    /\ retried = FALSE
    /\ prelim_posts = 0
    /\ received = <<>>
    /\ exc = NoException
    /\ status_log = <<>>
    /\ files = <<>>

\* slug = get_slug(link)
ApplyGetSlug ==
    /\ pc = "get_slug"
    /\ slug' = get_slug(link)
    /\ pc' = "slug_done"
    /\ UNCHANGED <<df, index, link, columnList, status, exc, status_log,
                   files, frame>>

SlugNext == ApplyGetSlug

SlugSpec == SlugInit /\ [][SlugNext]_vars

(***************************** properties **********************************)
Complete == <<"Complete">>

\* the script is in the dataset loop or past it
InRows == pc \in {"row", "prelim", "page", "save", "except", "done"}

\* the pagination loop is running, or was left by return or by an exception
InLoop ==
    \/ pc \in {"page", "save"}
    \/ pc = "except" /\ exc \in {"page_status", "page_json", "page_exhausted",
                                 "save_exception"}

LastLine(log) == log[Len(log)]

RECURSIVE SumN(_)
SumN(rs) == IF rs = <<>> THEN 0 ELSE rs[1].n + SumN(Tail(rs))

NonEmpty(r) == r.n > 0

\* every page received carried the whole slice of the dataset at its offset
AllPagesFull ==
    \A k \in 1..Len(received) :
        received[k].n = FullSlice(records_total, received[k].start)

\* the most page POSTs the current slug can have had: max_tries for each
\* finished call of fetch_api_data, and the attempts of the call in progress
PagePostsAtMost == max_tries * i + tries

Ceil(a, b) == IF a % b = 0 THEN a \div b ELSE (a \div b) + 1

----
\* C1 (as stated): when the preliminary request and every page request
\* succeed, the accumulated record count equals recordsTotal and the status
\* is 'Complete', whatever record counts the pages carry.
C1_CompleteWheneverAllSucceed ==
    (pc = "save" /\ ~retried) =>
        /\ NFetched(all_data) = records_total
        /\ status = Complete

\* C1 (amended): when the preliminary request and every page request succeed,
\* the status is 'Complete' exactly when the accumulated count equals
\* recordsTotal, which is the case when every page carries the whole slice at
\* its offset; fewer records give 'Incomplete (fetched/total)', more 'Failed'.
C1_CompleteIffCountsMatch ==
    pc = "save" =>
        /\ (status = Complete) <=> (NFetched(all_data) = records_total)
        /\ NFetched(all_data) < records_total =>
              status = <<"Incomplete", NFetched(all_data), records_total>>
        /\ NFetched(all_data) > records_total => status = <<"Failed">>
        /\ AllPagesFull => NFetched(all_data) = records_total

C1_Witness ==
    /\ pc = "save"
    /\ ~retried
    /\ records_total = batch_size \div 2
    /\ AllPagesFull
    /\ status = Complete

----
\* C2 (as stated): when a page request fails for good (a non-200 answer, or
\* request exceptions on every attempt), the line written for the dataset is
\* 'Incomplete (fetched/total)' with fetched < total.
C2_PageFailureLoggedIncomplete ==
    [][(pc = "except" /\ exc \in {"page_status", "page_exhausted"}
            /\ index' = index + 1) =>
          /\ LastLine(status_log').status =
                <<"Incomplete", NFetched(all_data), records_total>>
          /\ NFetched(all_data) < records_total]_vars

----
\* C3 (as stated): when a page request answers a bad status after earlier
\* pages succeeded, the records accumulated so far are returned with a status
\* and saved to the slug's dataset file.
C3_RecordsKeptOnBadStatus ==
    [][(pc = "except" /\ exc = "page_status" /\ all_data # <<>>
            /\ index' = index + 1) =>
          /\ slug \in DOMAIN files'
          /\ files'[slug] = all_data
          /\ LastLine(status_log').status # FailedToRetrieve]_vars

----
----
\* (Where no attempt raised, each iteration issued exactly one page request,
\* so i counts the requests.)
\* C5 (as stated): when no page request fails, the loop issues
\* ceil(total / 1000) page requests, for every total >= 0, and never requests
\* an offset at or beyond the total.
C5_CeilPageRequests ==
    (pc = "save" /\ ~retried) =>
        /\ i = Ceil(records_total, batch_size)
        /\ \A k \in 1..Len(received) : received[k].start < records_total

\* C5 (amended): when no page request fails, the loop issues
\* floor(total / 1000) + 1 page requests and never requests an offset beyond
\* the total; this is ceil(total / 1000), with every offset below the total,
\* unless the total is a multiple of 1000 (0 included), where the last request
\* is for the offset equal to the total.
C5_FloorPlusOnePageRequests ==
    /\ (pc = "page" /\ i < N_iterations) => start <= records_total
    /\ (pc = "save" /\ ~retried) =>
          /\ i = (records_total \div batch_size) + 1
          /\ \A k \in 1..Len(received) : received[k].start <= records_total
          /\ records_total % batch_size # 0 =>
                /\ i = Ceil(records_total, batch_size)
                /\ \A k \in 1..Len(received) :
                      received[k].start < records_total
          /\ records_total % batch_size = 0 =>
                /\ i = Ceil(records_total, batch_size) + 1
                /\ received[Len(received)].start = records_total

C5_Witness ==
    /\ pc = "save"
    /\ ~retried
    /\ records_total = batch_size
    /\ i = 2
    /\ received[2].start = batch_size

----
\* C6 (as stated): for a link containing the marker 'search/' get_slug returns
\* the text after the marker's first occurrence; for a link without the
\* marker it returns the link unchanged.
C6_GetSlugContract ==
    pc = "slug_done" =>
        LET ks == {k \in 1..(Len(link) - Len(marker) + 1) :
                      SubSeq(link, k, k + Len(marker) - 1) = marker}
            k1 == CHOOSE k \in ks : \A j \in ks : k <= j
        IN  IF ks = {} THEN slug = link
            ELSE slug = SubSeq(link, k1 + Len(marker), Len(link))

----
\* C7 (as stated): every failure while a row is processed, a failed
\* column-list discovery included, ends the row with the line
\* 'Failed to retrieve.' for its slug.
C7_EveryFailureLoggedFailed ==
    [][((pc = "except" \/ (pc = "save" /\ columnList = None))
            /\ index' = index + 1) =>
          LastLine(status_log') =
             [status |-> FailedToRetrieve, slug |-> df[index].slug]]_vars

\* C7 (amended): an exception raised while a row is processed is caught in
\* that row's iteration and logged as 'Failed to retrieve.' for its slug; the
\* run is not aborted and every later row is eventually processed, in catalog
\* order.  (A column-list discovery that ends in a bad status or finds no
\* table raises nothing: the row goes on with no column list.)
C7_ExceptionIsolated ==
    \A r \in 1..NRows :
        (pc = "except" /\ index = r) ~>
            /\ pc = "done"
            /\ Len(status_log) = Len(df)
            /\ r <= Len(status_log)
            /\ status_log[r] =
                  [status |-> FailedToRetrieve, slug |-> df[r].slug]
            /\ \A k \in 1..Len(df) : status_log[k].slug = df[k].slug

C7_Witness ==
    /\ pc = "done"
    /\ Len(df) = 2
    /\ Len(status_log) = 2
    /\ status_log[1].status = FailedToRetrieve
    /\ status_log[2].status = Complete
    /\ df[2].slug \in DOMAIN files

----
\* C8: a raising page POST is attempted at most max_tries (10) times, the
\* page requests of one slug number at most max_tries per loop iteration, and
\* once the attempts are used up the pagination of that slug is over for
\* good; the pagination of a slug always ends, and the run goes on to the end
\* of the catalog.
C8_BoundedRetries ==
    /\ [](/\ tries <= max_tries
          /\ InLoop => PagePostsAtMost <= max_tries * N_iterations
          /\ (pc = "except" /\ exc = "page_exhausted") => tries = max_tries
          /\ (pc = "page" /\ i < N_iterations) => tries < max_tries)
    /\ \A r \in 1..NRows :
          (pc = "page" /\ index = r) ~> (pc \in {"row", "done"} /\ index = r + 1)
    /\ \A r \in 1..NRows :
          (pc = "except" /\ exc = "page_exhausted" /\ index = r) ~>
              (pc = "done" /\ Len(status_log) = Len(df))

C8_Witness ==
    /\ pc = "except"
    /\ exc = "page_exhausted"
    /\ tries = max_tries
    /\ i = N_iterations - 1
    /\ index = 1
    /\ Len(df) = 2

----
\* C9: throughout the pagination loop the accumulator is the concatenation,
\* in request order, of the record lists of the pages received (none of them
\* the preliminary answer's), so it is never longer than the records
\* received, and the next offset is batch_size times the number of pages
\* appended, however many records each page carried.
C9_AccumulatorIsConcatenation ==
    InLoop =>
        /\ all_data = SelectSeq(received, NonEmpty)
        /\ NFetched(all_data) <= SumN(received)
        /\ \A k \in 1..Len(all_data) : all_data[k].src = "page"
        /\ \A k \in 1..Len(received) :
              received[k].start = batch_size * (k - 1)
        /\ Len(received) = i
        /\ start = batch_size * Len(received)

C9_Witness ==
    /\ pc = "save"
    /\ Len(received) = 2
    /\ received[1].n = 0
    /\ received[2].n > 0
    /\ Len(all_data) = 1
    /\ start = 2 * batch_size

----
\* C10: when the preliminary request answers a non-200 status it was
\* attempted once, no page request is issued for the slug, nothing is
\* returned, no dataset file is written for the slug, and the row gets the
\* one line 'Failed to retrieve.'.
C10_PrelimFailure ==
    [][(pc = "except" /\ exc = "prelim_status") =>
          /\ prelim_posts = 1
          /\ i = 0
          /\ tries = 0
          /\ received = <<>>
          /\ N_iterations = Unbound
          /\ slug \notin DOMAIN files
          /\ files' = files
          /\ status_log' =
                Append(status_log,
                       [status |-> FailedToRetrieve, slug |-> slug])
          /\ Len(status_log') = index
          /\ index' = index + 1]_vars

C10_Witness ==
    /\ pc = "except"
    /\ exc = "prelim_status"
    /\ prelim_posts = 1
    /\ i = 0
    /\ tries = 0
    /\ index = 2

====
